---- MODULE Spec2Model ----
(***************************************************************************)
(* A model of the PostHog voice-agent server.                              *)
(*                                                                         *)
(*   Spec       the two Recall webhook endpoints of main.py together with  *)
(*              the agent flows of agent.py they start (audio_cache,       *)
(*              processed_transcripts);                                    *)
(*   SpecAsk    ask / summarize_dashboard of ask_posthog.py: candidate     *)
(*              selection, per-insight summaries under asyncio.gather and  *)
(*              the combining call, and the two HTTP handlers of main.py   *)
(*              that answer with their result;                             *)
(*   SpecRetry  the retry_llm_errors wrapper of utils.py;                  *)
(*   SpecRecall the three calls to the bot platform of recall_api.py;      *)
(*   SpecFetch  the paginated fetch of posthog_api.py.                     *)
(*                                                                         *)
(* The server runs on one asyncio event loop.  A handler runs without      *)
(* interruption between two awaits that really suspend; every outgoing     *)
(* HTTP call of recall_api.py and posthog_api.py uses the blocking         *)
(* `requests` library inside an `async def`, so awaiting one of them never *)
(* yields to the loop.  The only suspension points are the read of the     *)
(* request body and the awaited AsyncOpenAI calls under asyncio.gather.    *)
(***************************************************************************)
EXTENDS Integers, Sequences, FiniteSets, Bags, TLC

\* Python's None, kept apart from every string the model uses as data.
None == "<None>"

\* Python truthiness of an optional string: None and "" are falsy.
Falsy(x) == x \in {None, ""}

----------------------------------------------------------------------------
(* Bounds and value domains of the webhook model.                          *)

\* Number of requests that may be in flight on the event loop at once.
MaxInflight == 2

TranscriptIds == {"t1", "t2"}
BotIds == {"bot_a", "bot_b"}
\* Base64 audio a text-to-speech call may return ("" when no chunk arrived).
Audio == {"", "mp3_a", "mp3_b"}

VARIABLES
    processed_transcripts,  \* main.py: set of transcript ids already triggered
    audio_cache,            \* agent.py: dict bot id -> pending base64 audio
    inflight,               \* bag of handler invocations suspended at an await
    agent_starts,           \* transcript id -> times process_agent_request ran (capped at 2)
    last,                   \* the request whose handler returned most recently
    cache_history           \* bot id -> what last happened to its audio_cache entry

hookVars == <<processed_transcripts, audio_cache, inflight, agent_starts, last,
              cache_history>>

VARIABLES
    num_attempts,    \* utils.py: the argument of retry_llm_errors
    retry_pc,        \* "idle", "calling", "returned" or "raised"
    attempt_number,  \* tenacity's count of the attempt under way
    attempts,        \* outcomes of the invocations of the wrapped function, in order
    retry_result     \* what the wrapper returned or raised

retryVars == <<num_attempts, retry_pc, attempt_number, attempts, retry_result>>

VARIABLES
    q_pc,          \* "idle", "gathering" or "done": where the ask_posthog call stands
    q_op,          \* "ask" or "summarize_dashboard"
    q_candidates,  \* the list handed to the selection (insights or dashboards)
    q_options,     \* the options the selection sent to the LLM
    q_answer,      \* the LLM's response to the selection call
    q_selected,    \* what the selection returned or raised
    q_insights,    \* the insights _generate_dashboard_summary was given
    q_completion,  \* <<index, outcome>> of the summary calls, in completion order
    llm_calls,     \* calls made: summary (insights, in call order), combine (prompts), embed
    q_outcome,     \* what ask / summarize_dashboard returned or raised
    http_response, \* main.py: what the /query or /dashboard_summary handler answered
    select_calls   \* times the selection's LLM call was made for this request

askVars == <<q_pc, q_op, q_candidates, q_options, q_answer, q_selected, q_insights,
             q_completion, llm_calls, q_outcome, http_response, select_calls>>

VARIABLES
    recall_pc,       \* "idle" or "returned": where the recall_api call stands
    recall_call,     \* the recall_api function called and its arguments
    recall_answer,   \* what requests.post met: a response or a RequestException
    recall_result,   \* what the function returned
    recall_posts     \* number of POSTs the call made

recallVars == <<recall_pc, recall_call, recall_answer, recall_result, recall_posts>>

VARIABLES
    next_of,      \* the provider: page -> the `next` cursor its response carries
    fetch_pc,     \* "idle", "fetching" or "done": where _get_all_paginated_results stands
    next_url,     \* posthog_api.py: the page to request next (0: no next cursor)
    all_results,  \* posthog_api.py: the records collected so far
    requested     \* the pages requested, in request order

fetchVars == <<next_of, fetch_pc, next_url, all_results, requested>>

otherThanHook == <<retryVars, askVars, recallVars, fetchVars>>
otherThanRetry == <<hookVars, askVars, recallVars, fetchVars>>
otherThanAsk == <<hookVars, retryVars, recallVars, fetchVars>>
otherThanRecall == <<hookVars, retryVars, askVars, fetchVars>>
otherThanFetch == <<hookVars, retryVars, askVars, recallVars>>

----------------------------------------------------------------------------
(* recall_api.py: event types                                              *)

RecallEventType ==
    {"bot.joining", "bot.in_waiting_room", "bot.in_call_not_recording",
     "bot.recording_permission_allowed", "bot.recording_permission_denied",
     "bot.in_call_recording", "bot.call_ended", "bot.done", "bot.fatal",
     "recording.processing"}

IN_CALL_RECORDING == "bot.in_call_recording"

\* RecallEvent.is_valid_event: RecallEventType(self.event_type) does not raise.
is_valid_event(event_type) == event_type \in RecallEventType

\* Event fields a delivered message may carry: the recording event, two other
\* members of the enum, a type outside the enum and a message without 'event'.
EventSamples ==
    {IN_CALL_RECORDING, "bot.done", "recording.processing", "bot.unknown", None}

\* A POST /recall/webhook request: sig is whether svix's Webhook.verify accepts
\* the payload and headers; event and bot are read from the message.
WebhookMessages == [sig : BOOLEAN, event : EventSamples, bot : BotIds]

----------------------------------------------------------------------------
(* main.py: POST /recall/webhook                                           *)

\* What webhook_handler does with a message once its body is read: the status
\* it answers with when it returns at once, and whether it goes on to await
\* process_recording_started.
WebhookDecision_NoVerify(msg) ==
    IF ~is_valid_event(msg.event)
    THEN [status |-> 400, start |-> FALSE]
    ELSE [status |-> 204, start |-> msg.event = IN_CALL_RECORDING]

WebhookDecision_Ignore(msg) ==
    IF ~msg.sig
    THEN [status |-> 400, start |-> FALSE]
    ELSE [status |-> 204,
          start |-> is_valid_event(msg.event) /\ msg.event = IN_CALL_RECORDING]

\* webhook_handler starting the flow for every recognized event type.
WebhookDecision_AnyEvent(msg) ==
    IF ~msg.sig
    THEN [status |-> 400, start |-> FALSE]
    ELSE IF ~is_valid_event(msg.event)
    THEN [status |-> 400, start |-> FALSE]
    ELSE [status |-> 204, start |-> TRUE]

WebhookDecision(msg) ==
    IF ~msg.sig
    THEN [status |-> 400, start |-> FALSE]             \* WebhookVerificationError
    ELSE IF ~is_valid_event(msg.event)
    THEN [status |-> 400, start |-> FALSE]             \* "Invalid event type received"
    ELSE [status |-> 204, start |-> msg.event = IN_CALL_RECORDING]

----------------------------------------------------------------------------
(* main.py: POST /api/webhook/recall/transcript                            *)

\* Texts of the transcript's words.  A word without 'text' reads as "".
WordSamples ==
    {<<"hello", "Daily", "STAND", "up">>, <<"daily", "", "stand", "up">>,
     <<"stand", "up">>}

\* str.lower on the word texts in use.
Lower(w) ==
    CASE w = "Daily" -> "daily"
      [] w = "STAND" -> "stand"
      [] OTHER -> w

\* "daily stand up" in ' '.join(texts).strip().lower(): the words are joined by
\* single spaces, so the phrase is three consecutive words.
HasTriggerPhrase(words) ==
    \E i \in 1 .. Len(words) - 2 :
        /\ Lower(words[i]) = "daily"
        /\ Lower(words[i + 1]) = "stand"
        /\ Lower(words[i + 2]) = "up"

\* Request bodies: "notjson" makes json.loads raise JSONDecodeError; "badshape"
\* is a body that raises something else on the way (bytes that do not decode,
\* JSON that is not an object); "json" carries the three fields read.
TranscriptBodies ==
    [kind : {"notjson", "badshape"}, tid : {None}, bot : {None}, words : {<<>>}]
    \cup
    [kind : {"json"}, tid : TranscriptIds \cup {None, ""},
     bot : BotIds \cup {None}, words : WordSamples]

\* Outcomes of requests.post in send_audio_to_recall, as process_agent_request
\* sees them: True, False (RequestException caught there), or another exception.
SendOutcomes == {"ok", "http_error", "other_error"}

\* processed_transcripts.add(transcript_id) put after the delivery and made
\* only when the delivery succeeded.
mark_processed_OnDelivery(processed, transcript_id, delivered) ==
    IF delivered THEN processed \cup {transcript_id} ELSE processed

\* main.py: processed_transcripts.add(transcript_id), made before
\* process_agent_request is awaited and so whatever the delivery comes to.
mark_processed(processed, transcript_id, delivered) ==
    processed \cup {transcript_id}

\* process_agent_request without `del audio_cache[bot_id]`.
process_agent_request_NoDelete(cache, bot_id, send) ==
    LET audio_b64 == IF bot_id \in DOMAIN cache THEN cache[bot_id] ELSE None
    IN  IF Falsy(audio_b64)
        THEN [cache |-> cache, posted |-> None]
        ELSE [cache |-> cache, posted |-> audio_b64]

\* agent.py process_agent_request: the cache it leaves, and the audio it
\* posted to the bot platform (None when it posted nothing).
process_agent_request(cache, bot_id, send) ==
    LET audio_b64 == IF bot_id \in DOMAIN cache THEN cache[bot_id] ELSE None
    IN  IF Falsy(audio_b64)
        THEN [cache |-> cache, posted |-> None]
        ELSE IF send # "ok"
        THEN [cache |-> cache, posted |-> audio_b64]
        ELSE [cache |-> [b \in DOMAIN cache \ {bot_id} |-> cache[b]],
              posted |-> audio_b64]

\* The decision of handle_transcript for a body, given the ids processed so
\* far: the status, and whether the id is marked and the agent flow started.
TranscriptDecision_NoDedup(body, processed) ==
    IF body.kind = "notjson" THEN [status |-> 400, trigger |-> FALSE]
    ELSE IF body.kind = "badshape" THEN [status |-> 500, trigger |-> FALSE]
    ELSE IF Falsy(body.tid) THEN [status |-> 400, trigger |-> FALSE]
    ELSE IF Falsy(body.bot) THEN [status |-> 400, trigger |-> FALSE]
    ELSE [status |-> 204, trigger |-> HasTriggerPhrase(body.words)]

TranscriptDecision_BotFirst(body, processed) ==
    IF body.kind = "notjson" THEN [status |-> 400, trigger |-> FALSE]
    ELSE IF body.kind = "badshape" THEN [status |-> 500, trigger |-> FALSE]
    ELSE IF Falsy(body.tid) THEN [status |-> 400, trigger |-> FALSE]
    ELSE IF Falsy(body.bot) THEN [status |-> 400, trigger |-> FALSE]
    ELSE IF body.tid \in processed THEN [status |-> 204, trigger |-> FALSE]
    ELSE [status |-> 204, trigger |-> HasTriggerPhrase(body.words)]

TranscriptDecision(body, processed) ==
    IF body.kind = "notjson" THEN [status |-> 400, trigger |-> FALSE]
    ELSE IF body.kind = "badshape" THEN [status |-> 500, trigger |-> FALSE]
    ELSE IF Falsy(body.tid) THEN [status |-> 400, trigger |-> FALSE]
    ELSE IF body.tid \in processed THEN [status |-> 204, trigger |-> FALSE]
    ELSE IF Falsy(body.bot) THEN [status |-> 400, trigger |-> FALSE]
    ELSE [status |-> 204, trigger |-> HasTriggerPhrase(body.words)]

----------------------------------------------------------------------------
(* The event loop: requests arrive, handlers run between suspension points *)

\* A handler invocation suspended at `await request.body()`.
AtBody(endpoint) == [pc |-> "body", endpoint |-> endpoint]

\* webhook_handler suspended inside process_recording_started(msg.bot).
AtSummarize(msg) == [pc |-> "summarizing", msg |-> msg]

NoRequest == [endpoint |-> "none"]

Bump(n) == IF n < 2 THEN n + 1 ELSE 2

\* History of a bot's audio_cache entry: "none" before the first write,
\* "cached" once process_recording_started wrote it, "removed" once
\* process_agent_request posted it and the platform accepted it, and
\* "removed_overlapped" when that happened while another transcript request
\* was in flight and none has arrived or been handled since.
Settled(history) ==
    [b \in BotIds |-> IF history[b] = "removed_overlapped"
                      THEN "removed" ELSE history[b]]

HookInit ==
    /\ processed_transcripts = {}
    /\ audio_cache = <<>>
    /\ inflight = EmptyBag
    /\ agent_starts = [t \in TranscriptIds |-> 0]
    /\ last = NoRequest
    /\ cache_history = [b \in BotIds |-> "none"]

\* A request reaches an endpoint; its handler awaits request.body().
Arrive(endpoint) ==
    /\ BagCardinality(inflight) < MaxInflight
    /\ inflight' = inflight (+) SetToBag({AtBody(endpoint)})
    /\ cache_history' = IF endpoint = "transcript"
                        THEN Settled(cache_history) ELSE cache_history
    /\ UNCHANGED <<processed_transcripts, audio_cache, agent_starts, last>>
    /\ UNCHANGED otherThanHook

\* handle_transcript from the body to its return: nothing it awaits suspends.
handle_transcript ==
    /\ BagIn(AtBody("transcript"), inflight)
    /\ UNCHANGED otherThanHook
    /\ inflight' = inflight (-) SetToBag({AtBody("transcript")})
    /\ \E body \in TranscriptBodies :
         LET d == TranscriptDecision(body, processed_transcripts)
             seen == body.tid \in processed_transcripts
         IN  IF d.trigger
             THEN \E send \in SendOutcomes :
                    LET r == process_agent_request(audio_cache, body.bot, send)
                        delivered == r.posted # None /\ send = "ok"
                        overlapped == BagIn(AtBody("transcript"), inflight')
                    IN  /\ cache_history' =
                               IF delivered
                               THEN [Settled(cache_history) EXCEPT ![body.bot] =
                                        IF overlapped THEN "removed_overlapped"
                                        ELSE "removed"]
                               ELSE Settled(cache_history)
                        /\ processed_transcripts' =
                               mark_processed(processed_transcripts, body.tid,
                                              delivered)
                        /\ agent_starts' =
                               [agent_starts EXCEPT ![body.tid] = Bump(@)]
                        /\ audio_cache' = r.cache
                        /\ last' = [endpoint |-> "transcript", req |-> body,
                                    status |-> d.status, flow |-> "agent",
                                    seen |-> seen, send |-> send,
                                    posted |-> r.posted,
                                    raced |-> cache_history[body.bot] =
                                                  "removed_overlapped"]
             ELSE /\ UNCHANGED <<processed_transcripts, agent_starts, audio_cache>>
                  /\ cache_history' = Settled(cache_history)
                  /\ last' = [endpoint |-> "transcript", req |-> body,
                              status |-> d.status, flow |-> "none",
                              seen |-> seen, send |-> None, posted |-> None,
                              raced |-> FALSE]

\* webhook_handler from the body to its return, or to the suspension inside
\* process_recording_started (the gathered summary calls of summarize_dashboard).
webhook_handler ==
    /\ BagIn(AtBody("webhook"), inflight)
    /\ UNCHANGED otherThanHook
    /\ \E msg \in WebhookMessages :
         LET d == WebhookDecision(msg)
             rest == inflight (-) SetToBag({AtBody("webhook")})
         IN  IF d.start
             THEN /\ inflight' = rest (+) SetToBag({AtSummarize(msg)})
                  /\ last' = last
             ELSE /\ inflight' = rest
                  /\ last' = [endpoint |-> "webhook", req |-> msg,
                              status |-> d.status, flow |-> "none",
                              cached |-> None]
    /\ UNCHANGED <<processed_transcripts, audio_cache, agent_starts, cache_history>>

\* The calls process_recording_started makes, in order.
RecordingSteps ==
    <<"summarize_dashboard", "send_screenshare_to_recall", "text_to_speech_base64">>

\* process_recording_started going on to text to speech and the cache write
\* although send_screenshare_to_recall returned False.
recording_flow_IgnoreScreenshare(summary, screen_success, tts) ==
    IF summary = "raise"
    THEN [steps |-> <<"raise">>, stored |-> FALSE, returned |-> None]
    ELSE IF tts = "raise"
    THEN [steps |-> <<"ok", IF screen_success THEN "ok" ELSE "false", "raise">>,
          stored |-> FALSE, returned |-> None]
    ELSE [steps |-> <<"ok", IF screen_success THEN "ok" ELSE "false", "ok">>,
          stored |-> TRUE, returned |-> tts]

\* The body of process_recording_started for the outcomes of its calls: the
\* outcome of each call it made (the k-th is that of RecordingSteps[k]: "ok",
\* "raise", or "false" for a screenshare that returned False),
\* whether it wrote audio_cache[bot_id], and what it returned.  An exception
\* raised by a call is caught and ends the flow with None.
recording_flow(summary, screen_success, tts) ==
    IF summary = "raise"
    THEN [steps |-> <<"raise">>, stored |-> FALSE, returned |-> None]
    ELSE IF ~screen_success
    THEN [steps |-> <<"ok", "false">>, stored |-> FALSE, returned |-> None]
    ELSE IF tts = "raise"
    THEN [steps |-> <<"ok", "ok", "raise">>, stored |-> FALSE, returned |-> None]
    ELSE [steps |-> <<"ok", "ok", "ok">>, stored |-> TRUE, returned |-> tts]

\* agent.py process_recording_started once summarize_dashboard has finished:
\* screenshare, text to speech, cache write; then webhook_handler returns 204.
process_recording_started ==
    \E t \in BagToSet(inflight) :
        /\ t.pc = "summarizing"
        /\ inflight' = inflight (-) SetToBag({t})
        /\ \E summary \in {"raise", "text"}, screen_success \in BOOLEAN,
              tts \in Audio \cup {"raise"} :
             LET bot_id == t.msg.bot
                 flow == recording_flow(summary, screen_success, tts)
                 stored == flow.stored
             IN  /\ audio_cache' =
                        IF stored
                        THEN [b \in DOMAIN audio_cache \cup {bot_id} |->
                                 IF b = bot_id THEN tts ELSE audio_cache[b]]
                        ELSE audio_cache
                 /\ cache_history' =
                        IF stored
                        THEN [cache_history EXCEPT ![bot_id] = "cached"]
                        ELSE cache_history
                 /\ last' = [endpoint |-> "webhook", req |-> t.msg,
                             status |-> 204, flow |-> "recording",
                             cached |-> IF stored THEN tts ELSE None,
                             steps |-> flow.steps,
                             returned |-> flow.returned,
                             prior |-> audio_cache]
        /\ UNCHANGED <<processed_transcripts, agent_starts>>
        /\ UNCHANGED otherThanHook

HookNext ==
    \/ Arrive("transcript")
    \/ Arrive("webhook")
    \/ handle_transcript
    \/ webhook_handler
    \/ process_recording_started

----------------------------------------------------------------------------
(* utils.py: retry_llm_errors                                              *)

\* Largest num_attempts a wrapper is built with.
MaxAttempts == 4

\* The default of retry_llm_errors(num_attempts=3).
DefaultAttempts == 3

\* What one invocation of the wrapped function may do: return a value, raise
\* an Exception, or raise a BaseException that is no Exception.
ReturnValues == {"value_a", "value_b"}
ExceptionTypes == {"ValueError", "TimeoutError"}
BaseExceptionTypes == ExceptionTypes \cup {"KeyboardInterrupt"}

AttemptOutcomes ==
    [kind : {"return"}, value : ReturnValues]
    \cup [kind : {"raise"}, value : BaseExceptionTypes]

\* LLMErrors = Exception; retry=tenacity.retry_if_exception_type(LLMErrors).
LLMErrors == ExceptionTypes

retry_if_exception_type(outcome) ==
    outcome.kind = "raise" /\ outcome.value \in LLMErrors

\* stop=tenacity.stop_after_attempt(num_attempts).
stop_after_attempt_OffByOne(n, attempt) == attempt > n

stop_after_attempt(n, attempt) == attempt >= n

\* reraise=True: once stopped, the last attempt's own exception is raised
\* (without it tenacity raises its RetryError).
reraise_Wrapped(outcome) == [kind |-> "raise", value |-> "RetryError"]

reraise(outcome) == outcome

RetryIdle ==
    /\ retry_pc = "idle"
    /\ attempt_number = 0
    /\ attempts = <<>>
    /\ retry_result = [kind |-> "none"]

RetryInit ==
    /\ num_attempts \in 1 .. MaxAttempts
    /\ RetryIdle

\* wrapper(*args, **kwargs) is called: tenacity begins with attempt 1.
RetryCall ==
    /\ retry_pc = "idle"
    /\ retry_pc' = "calling"
    /\ attempt_number' = 1
    /\ UNCHANGED <<num_attempts, attempts, retry_result>>
    /\ UNCHANGED otherThanRetry

\* One invocation of the wrapped function and tenacity's decision on it.
RetryAttempt ==
    /\ retry_pc = "calling"
    /\ \E outcome \in AttemptOutcomes :
         /\ attempts' = Append(attempts, outcome)
         /\ IF ~retry_if_exception_type(outcome)
            THEN \* a value is returned; an exception not retried propagates
                 /\ retry_pc' = IF outcome.kind = "return" THEN "returned" ELSE "raised"
                 /\ retry_result' = outcome
                 /\ UNCHANGED attempt_number
            ELSE IF stop_after_attempt(num_attempts, attempt_number)
            THEN /\ retry_pc' = "raised"
                 /\ retry_result' = reraise(outcome)
                 /\ UNCHANGED attempt_number
            ELSE /\ attempt_number' = attempt_number + 1
                 /\ UNCHANGED <<retry_pc, retry_result>>
    /\ UNCHANGED num_attempts
    /\ UNCHANGED otherThanRetry

\* The wrapper is built and called again, with any attempt count.
RetryAgain ==
    /\ retry_pc \in {"returned", "raised"}
    /\ num_attempts' \in 1 .. MaxAttempts
    /\ retry_pc' = "idle"
    /\ attempt_number' = 0
    /\ attempts' = <<>>
    /\ retry_result' = [kind |-> "none"]
    /\ UNCHANGED otherThanRetry

RetryNext ==
    \/ RetryCall
    \/ RetryAttempt
    \/ RetryAgain

----------------------------------------------------------------------------
(* ask_posthog.py: candidate selection                                     *)

\* Longest list of insights, and of dashboards, the provider returns.
MaxInsights == 2
MaxDashboards == 2

\* PostHogInsight, with the fields the code reads: id, name, description and
\* the ids of the dashboards it belongs to.
InsightSamples ==
    {[id |-> 11, name |-> "DAU", description |-> "daily users", dashboards |-> {1}],
     [id |-> 12, name |-> "WAU", description |-> "", dashboards |-> {1, 2}],
     [id |-> 13, name |-> "", description |-> "", dashboards |-> {1}]}

\* PostHogDashboard: id, name, description (str | None).
DashboardSamples ==
    {[id |-> 1, name |-> "Growth", description |-> None],
     [id |-> 2, name |-> "", description |-> ""],
     [id |-> 3, name |-> "Sales", description |-> "pipeline"]}

\* Lists of distinct members of S, of length at most n.
ListsOf(S, n) ==
    {l \in UNION {[1 .. k -> S] : k \in 0 .. n} :
        \A i, j \in DOMAIN l : i # j => l[i] # l[j]}

InsightLists == ListsOf(InsightSamples, MaxInsights)
DashboardLists == ListsOf(DashboardSamples, MaxDashboards)

\* final_answer values the LLM may report (the schema asks for a number): -1,
\* every index of the longest list, and integers on both sides of that range.
FinalAnswers(n) == -(n + 1) .. n

\* What a selection call to the LLM ends in: a response whose JSON carries
\* final_answer, or an exception (the API fails, the content is not that JSON).
SelectResponses(n) ==
    [kind : {"json"}, final_answer : FinalAnswers(n)] \cup {[kind |-> "error"]}

LLMError == [kind |-> "raise", exc |-> "LLMError"]
IndexError == [kind |-> "raise", exc |-> "IndexError"]
NoMatch == [kind |-> "none"]
Item(x) == [kind |-> "item", item |-> x]

\* `not insight.name and not insight.description`
EmptyCandidate(c) == Falsy(c.name) /\ Falsy(c.description)

\* list[k] read as if positions were counted from 1.
PyIndex_OneBased(list, k) ==
    IF 1 <= k /\ k <= Len(list) THEN [kind |-> "item", item |-> list[k]]
    ELSE [kind |-> "raise", exc |-> "IndexError"]

\* Python's list[k]: a negative k counts from the end; out of range raises.
PyIndex(list, k) ==
    IF 0 <= k /\ k < Len(list) THEN Item(list[k + 1])
    ELSE IF -Len(list) <= k /\ k < 0 THEN Item(list[Len(list) + k + 1])
    ELSE IndexError

\* The loop of _select_posthog_insight building insight_options: the id of an
\* option is the insight's index in the unfiltered list.
RECURSIVE insight_options_from(_, _)
insight_options_from(insights, i) ==
    IF i > Len(insights) THEN <<>>
    ELSE (IF EmptyCandidate(insights[i]) THEN <<>>
          ELSE <<[id |-> i - 1,
                  name |-> <<insights[i].name, insights[i].description>>]>>)
         \o insight_options_from(insights, i + 1)

insight_options(insights) == insight_options_from(insights, 1)

\* The comprehension of _select_dashboard building dashboard_options.
dashboard_options(dashboards) ==
    [i \in 1 .. Len(dashboards) |->
        [id |-> i - 1, name |-> dashboards[i].name,
         description |-> IF Falsy(dashboards[i].description)
                         THEN "No description"
                         ELSE dashboards[i].description]]

\* The end of both selections: json.loads of the response, the -1 test, the
\* index into the list the function was given.
select_result_NoSentinel(list, response) ==
    IF response.kind = "error" THEN LLMError
    ELSE PyIndex(list, response.final_answer)

select_result(list, response) ==
    IF response.kind = "error" THEN LLMError
    ELSE IF response.final_answer = -1 THEN NoMatch
    ELSE PyIndex(list, response.final_answer)

_select_posthog_insight(insights, response) == select_result(insights, response)

_select_dashboard(dashboards, response) == select_result(dashboards, response)

----------------------------------------------------------------------------
(* ask_posthog.py: summaries                                               *)

\* Texts the LLM may give as the final_answer of a summary.
SummaryTexts == {"summary_x", "summary_y"}
LLMText(t) == [kind |-> "llm", text |-> t]

\* What the sharing endpoint of the provider answers: a URL or None.
EmbedUrls == {None, "https://us.posthog.com/embedded/token"}

NotFound(what) == [kind |-> "not_found", what |-> what]
NoInsights(dashboard) == [kind |-> "no_insights", dashboard |-> dashboard.name]

QueryResult(summary, embed_url) ==
    [kind |-> "result", summary |-> summary, embed_url |-> embed_url]

\* asyncio.gather: the results in the order of the awaitables it was given,
\* whatever the order the calls completed in.
gather_CompletionOrder(n, completion) == [i \in 1 .. n |-> completion[i][2]]

gather(n, completion) ==
    [i \in 1 .. n |->
        (CHOOSE c \in {completion[k] : k \in DOMAIN completion} : c[1] = i)[2]]

\* asyncio.gather(..., return_exceptions=True): an exception is handed back
\* as one of the results.
return_exceptions_True == TRUE

\* asyncio.gather is called with its default return_exceptions=False: the
\* first exception raised by an awaitable is raised by gather.
return_exceptions == FALSE

\* combined_summary_str of _combine_summaries: the header, "Insights:" and one
\* numbered line per (insight, summary) pair of zip(insights, insight_summaries).
combined_summary_str(dashboard, insights, insight_summaries) ==
    [kind |-> "template",
     dashboard |-> <<dashboard.name,
                     IF Falsy(dashboard.description) THEN "" ELSE dashboard.description>>,
     lines |-> [i \in 1 .. Len(insights) |->
                   <<i, insights[i].name, insights[i].description,
                     insight_summaries[i]>>]]

\* Answers the LLM may give to the combining call: a text of its own, or the
\* prompt back word for word.
CombineAnswers(prompt) == {LLMText(t) : t \in SummaryTexts} \cup {prompt}

\* _generate_dashboard_summary: with no insights the fixed text, without a call.
short_circuit_Never(insights) == FALSE

short_circuit(insights) == insights = <<>>

\* _get_dashboard_insights: [insight for insight in insights if dashboard_id in insight.dashboards]
RECURSIVE dashboard_insights_from(_, _, _)
dashboard_insights_from(insights, dashboard_id, i) ==
    IF i > Len(insights) THEN <<>>
    ELSE (IF dashboard_id \in insights[i].dashboards THEN <<insights[i]>> ELSE <<>>)
         \o dashboard_insights_from(insights, dashboard_id, i + 1)

_get_dashboard_insights(insights, dashboard_id) ==
    dashboard_insights_from(insights, dashboard_id, 1)

NoCalls == [summary |-> <<>>, combine |-> <<>>, embed |-> 0]

\* No HTTP handler has answered the call under way.
NoResponse == [status_code |-> 0]

\* main.py: the embed_url both HTTP handlers put into their response.
InsightPageUrl == "https://us.posthog.com/project/97299/insights/JdSPy76X"

\* The JSON answer of handle_query and handle_dashboard_summary for what
\* ask / summarize_dashboard returned; an exception they raise reaches the
\* framework, which answers 500.
http_reply(outcome) ==
    IF outcome.kind = "raise"
    THEN [status_code |-> 500]
    ELSE [status_code |-> 200,
          body |-> [status |-> "success", response |-> outcome,
                    embed_url |-> InsightPageUrl]]

AskIdle ==
    /\ q_pc = "idle"
    /\ q_op = "none"
    /\ q_candidates = <<>>
    /\ q_options = <<>>
    /\ q_answer = [kind |-> "none"]
    /\ q_selected = [kind |-> "unset"]
    /\ q_insights = <<>>
    /\ q_completion = <<>>
    /\ llm_calls = NoCalls
    /\ q_outcome = [kind |-> "none"]
    /\ http_response = NoResponse
    /\ select_calls = 0

\* ask(user_input), from the fetch of the insights to its return.  Its one
\* awaited LLM call shares no state with anything else.
ask ==
    /\ q_pc = "idle"
    /\ \E insights \in InsightLists,
          response \in SelectResponses(MaxInsights) :
         LET sel == _select_posthog_insight(insights, response)
         IN  /\ q_candidates' = insights
             /\ q_options' = insight_options(insights)
             /\ q_answer' = response
             /\ q_selected' = sel
             /\ IF sel.kind = "raise"
                THEN /\ q_outcome' = sel
                     /\ llm_calls' = NoCalls
                     /\ q_completion' = <<>>
                ELSE IF sel.kind = "none"   \* `if not insight`
                THEN /\ q_outcome' = QueryResult(NotFound("metric"), None)
                     /\ llm_calls' = NoCalls
                     /\ q_completion' = <<>>
                ELSE \E summary \in SummaryTexts \cup {"error"}, url \in EmbedUrls :
                       IF summary = "error"
                       THEN /\ q_outcome' = LLMError
                            /\ llm_calls' = [NoCalls EXCEPT !.summary = <<sel.item.id>>]
                            /\ q_completion' = <<<<1, LLMError>>>>
                       ELSE /\ q_outcome' = QueryResult(LLMText(summary), url)
                            /\ llm_calls' = [summary |-> <<sel.item.id>>,
                                             combine |-> <<>>, embed |-> 1]
                            /\ q_completion' = <<<<1, LLMText(summary)>>>>
    /\ q_pc' = "done"
    /\ q_op' = "ask"
    /\ select_calls' = 1   \* openai_client.chat.completions.create, called once
    /\ UNCHANGED <<q_insights, http_response>>
    /\ UNCHANGED otherThanAsk

\* summarize_dashboard(user_input), from the fetch of the dashboards to its
\* return or to the suspension in asyncio.gather.
summarize_dashboard ==
    /\ q_pc = "idle"
    /\ q_op' = "summarize_dashboard"
    /\ \E dashboards \in DashboardLists,
          response \in SelectResponses(MaxDashboards),
          all_insights \in InsightLists :
         LET sel == _select_dashboard(dashboards, response)
         IN  /\ q_candidates' = dashboards
             /\ q_options' = dashboard_options(dashboards)
             /\ q_answer' = response
             /\ q_selected' = sel
             /\ q_completion' = <<>>
             /\ IF sel.kind = "raise"
                THEN /\ q_outcome' = sel
                     /\ llm_calls' = NoCalls
                     /\ q_insights' = <<>>
                     /\ q_pc' = "done"
                ELSE IF sel.kind = "none"   \* `if not dashboard`
                THEN /\ q_outcome' = QueryResult(NotFound("dashboard"), None)
                     /\ llm_calls' = NoCalls
                     /\ q_insights' = <<>>
                     /\ q_pc' = "done"
                ELSE LET insights == _get_dashboard_insights(all_insights, sel.item.id)
                     IN  /\ q_insights' = insights
                         /\ IF short_circuit(insights)
                            THEN \E url \in EmbedUrls :
                                   /\ q_outcome' = QueryResult(NoInsights(sel.item), url)
                                   /\ llm_calls' = [NoCalls EXCEPT !.embed = 1]
                                   /\ q_pc' = "done"
                            ELSE \* one _generate_insight_summary per insight
                                 /\ q_outcome' = [kind |-> "pending"]
                                 /\ llm_calls' =
                                        [NoCalls EXCEPT !.summary =
                                            [i \in 1 .. Len(insights) |-> insights[i].id]]
                                 /\ q_pc' = "gathering"
    /\ select_calls' = 1   \* openai_client.chat.completions.create, called once
    /\ UNCHANGED http_response
    /\ UNCHANGED otherThanAsk

\* One of the gathered summary calls completes, in any order.  The first one
\* to raise makes gather, and so summarize_dashboard, raise.
summary_completes ==
    /\ q_pc = "gathering"
    /\ \E i \in 1 .. Len(q_insights), answer \in SummaryTexts \cup {"error"} :
         /\ \A k \in DOMAIN q_completion : q_completion[k][1] # i
         /\ q_completion' =
                Append(q_completion,
                       <<i, IF answer = "error" THEN LLMError ELSE LLMText(answer)>>)
         /\ IF answer = "error" /\ ~return_exceptions
            THEN /\ q_outcome' = LLMError
                 /\ q_pc' = "done"
            ELSE UNCHANGED <<q_outcome, q_pc>>
    /\ UNCHANGED <<q_op, q_candidates, q_options, q_answer, q_selected, q_insights,
                   llm_calls, http_response, select_calls>>
    /\ UNCHANGED otherThanAsk

\* gather returns: _combine_summaries makes the combining call, then the
\* embed URL is looked up and summarize_dashboard returns.
combine_summaries ==
    /\ q_pc = "gathering"
    /\ Len(q_completion) = Len(q_insights)
    /\ LET insight_summaries == gather(Len(q_insights), q_completion)
           prompt == combined_summary_str(q_selected.item, q_insights,
                                          insight_summaries)
       IN  \E answer \in CombineAnswers(prompt) \cup {LLMError}, url \in EmbedUrls :
             IF answer = LLMError
             THEN /\ q_outcome' = LLMError
                  /\ llm_calls' = [llm_calls EXCEPT !.combine = <<prompt>>]
             ELSE /\ q_outcome' = QueryResult(answer, url)
                  /\ llm_calls' = [llm_calls EXCEPT !.combine = <<prompt>>,
                                                    !.embed = 1]
    /\ q_pc' = "done"
    /\ UNCHANGED <<q_op, q_candidates, q_options, q_answer, q_selected, q_insights,
                   q_completion, http_response, select_calls>>
    /\ UNCHANGED otherThanAsk

\* POST /query: handle_query answers with what ask returned.
handle_query ==
    /\ q_pc = "done"
    /\ q_op = "ask"
    /\ http_response = NoResponse
    /\ http_response' = http_reply(q_outcome)
    /\ UNCHANGED <<q_pc, q_op, q_candidates, q_options, q_answer, q_selected,
                   q_insights, q_completion, llm_calls, q_outcome, select_calls>>
    /\ UNCHANGED otherThanAsk

\* POST /dashboard-summary: handle_dashboard_summary answers with what
\* summarize_dashboard returned.
handle_dashboard_summary ==
    /\ q_pc = "done"
    /\ q_op = "summarize_dashboard"
    /\ http_response = NoResponse
    /\ http_response' = http_reply(q_outcome)
    /\ UNCHANGED <<q_pc, q_op, q_candidates, q_options, q_answer, q_selected,
                   q_insights, q_completion, llm_calls, q_outcome, select_calls>>
    /\ UNCHANGED otherThanAsk

\* The caller has its answer; the next call may begin.
ask_returns ==
    /\ q_pc = "done"
    /\ q_pc' = "idle"
    /\ q_op' = "none"
    /\ q_candidates' = <<>>
    /\ q_options' = <<>>
    /\ q_answer' = [kind |-> "none"]
    /\ q_selected' = [kind |-> "unset"]
    /\ q_insights' = <<>>
    /\ q_completion' = <<>>
    /\ llm_calls' = NoCalls
    /\ q_outcome' = [kind |-> "none"]
    /\ http_response' = NoResponse
    /\ select_calls' = 0
    /\ UNCHANGED otherThanAsk

AskNext ==
    \/ ask
    \/ summarize_dashboard
    \/ summary_completes
    \/ combine_summaries
    \/ handle_query
    \/ handle_dashboard_summary
    \/ ask_returns

----------------------------------------------------------------------------
(* recall_api.py: the three calls to the bot platform                      *)

\* Status codes the bot platform may answer with.
StatusCodes == {200, 201, 204, 304, 400, 404, 500, 503}

\* Subclasses of requests.exceptions.RequestException requests.post raises
\* when no response arrives.
RequestExceptions == {"ConnectionError", "Timeout"}

\* What requests.post meets.
PlatformAnswers ==
    [kind : {"response"}, status_code : StatusCodes]
    \cup [kind : {"exception"}, exc : RequestExceptions]

\* Base64 JPEG of create_text_image.
Images == {"jpeg_a", "jpeg_b"}

\* Response.raise_for_status(): raises HTTPError for a 4xx or 5xx status.
raise_for_status(status_code) == 400 <= status_code /\ status_code < 600

\* The try block shared by the three functions: True unless requests.post or
\* raise_for_status raised a RequestException, which is caught and gives False.
post_succeeded(answer) ==
    IF answer.kind = "exception" THEN FALSE
    ELSE ~raise_for_status(answer.status_code)

NoCall == [fn |-> "none"]

RecallIdle ==
    /\ recall_pc = "idle"
    /\ recall_call = NoCall
    /\ recall_answer = [kind |-> "none"]
    /\ recall_result = [kind |-> "none"]
    /\ recall_posts = 0

\* What a recall_api function hands to its caller for an answer.
returned(answer) == [kind |-> "return", value |-> post_succeeded(answer)]

send_audio_to_recall ==
    /\ recall_pc = "idle"
    /\ \E bot_id \in BotIds, audio_b64 \in Audio, answer \in PlatformAnswers :
         /\ recall_call' = [fn |-> "send_audio_to_recall", bot_id |-> bot_id,
                            b64_data |-> audio_b64]
         /\ recall_answer' = answer
         /\ recall_result' = returned(answer)
    /\ recall_posts' = 1
    /\ recall_pc' = "returned"
    /\ UNCHANGED otherThanRecall

send_screenshare_to_recall ==
    /\ recall_pc = "idle"
    /\ \E bot_id \in BotIds, image_b64 \in Images, answer \in PlatformAnswers :
         /\ recall_call' = [fn |-> "send_screenshare_to_recall", bot_id |-> bot_id,
                            b64_data |-> image_b64]
         /\ recall_answer' = answer
         /\ recall_result' = returned(answer)
    /\ recall_posts' = 1
    /\ recall_pc' = "returned"
    /\ UNCHANGED otherThanRecall

send_screenshare_stop_to_recall ==
    /\ recall_pc = "idle"
    /\ \E bot_id \in BotIds, answer \in PlatformAnswers :
         /\ recall_call' = [fn |-> "send_screenshare_stop_to_recall",
                            bot_id |-> bot_id]
         /\ recall_answer' = answer
         /\ recall_result' = returned(answer)
    /\ recall_posts' = 1
    /\ recall_pc' = "returned"
    /\ UNCHANGED otherThanRecall

\* The caller has the flag; the next call may begin.
recall_returns ==
    /\ recall_pc = "returned"
    /\ recall_pc' = "idle"
    /\ recall_call' = NoCall
    /\ recall_answer' = [kind |-> "none"]
    /\ recall_result' = [kind |-> "none"]
    /\ recall_posts' = 0
    /\ UNCHANGED otherThanRecall

RecallNext ==
    \/ send_audio_to_recall
    \/ send_screenshare_to_recall
    \/ send_screenshare_stop_to_recall
    \/ recall_returns

----------------------------------------------------------------------------
(* posthog_api.py: _get_all_paginated_results                              *)

\* Number of pages the provider holds; page 1 is base_url.
MaxPages == 3

\* Requests after which a fetch is no longer followed (a cyclic chain of
\* cursors never ends).
MaxFetches == MaxPages + 2

Pages == 1 .. MaxPages

\* A missing or null `next`: falsy, so the loop ends.
NoNext == 0

\* response_json["results"] of a page: the records differ from page to page
\* and one page is empty.
PageRecords(page) ==
    IF page % 3 = 1 THEN <<[page |-> page, row |-> 1], [page |-> page, row |-> 2]>>
    ELSE IF page % 3 = 2 THEN <<>>
    ELSE <<[page |-> page, row |-> 1]>>

\* list.extend with the records put in front instead.
extend_Prepend(list, records) == records \o list

\* all_results.extend(response_json["results"])
extend(list, records) == list \o records

FetchIdle ==
    /\ next_of = [page \in Pages |-> NoNext]
    /\ fetch_pc = "idle"
    /\ next_url = NoNext
    /\ all_results = <<>>
    /\ requested = <<>>

\* _get_all_paginated_results(base_url) at the head of its loop, for any
\* arrangement of next cursors, cyclic ones included.
FetchInit ==
    /\ next_of \in [Pages -> Pages \cup {NoNext}]
    /\ fetch_pc = "fetching"
    /\ next_url = 1
    /\ all_results = <<>>
    /\ requested = <<>>

\* One turn of `while next_url`: request the page, collect its records, take
\* its next cursor.
fetch_page ==
    /\ fetch_pc = "fetching"
    /\ next_url # NoNext
    /\ Len(requested) < MaxFetches
    /\ requested' = Append(requested, next_url)
    /\ all_results' = extend(all_results, PageRecords(next_url))
    /\ next_url' = next_of[next_url]
    /\ UNCHANGED <<next_of, fetch_pc>>
    /\ UNCHANGED otherThanFetch

\* `while next_url` is false: return all_results.
fetch_returns ==
    /\ fetch_pc = "fetching"
    /\ next_url = NoNext
    /\ fetch_pc' = "done"
    /\ UNCHANGED <<next_of, next_url, all_results, requested>>
    /\ UNCHANGED otherThanFetch

FetchNext ==
    \/ fetch_page
    \/ fetch_returns

----------------------------------------------------------------------------
(* Specifications                                                          *)

vars == <<hookVars, retryVars, askVars, recallVars, fetchVars>>

\* The webhook server.
Init ==
    /\ HookInit /\ num_attempts = DefaultAttempts /\ RetryIdle /\ AskIdle
    /\ RecallIdle /\ FetchIdle

Next == HookNext

Spec == Init /\ [][Next]_vars

\* The retry wrapper.
InitRetry == RetryInit /\ HookInit /\ AskIdle /\ RecallIdle /\ FetchIdle

SpecRetry == InitRetry /\ [][RetryNext]_vars

\* ask and summarize_dashboard.
InitAsk ==
    /\ AskIdle /\ HookInit /\ num_attempts = DefaultAttempts /\ RetryIdle
    /\ RecallIdle /\ FetchIdle

SpecAsk == InitAsk /\ [][AskNext]_vars

\* The calls to the bot platform.
InitRecall ==
    /\ RecallIdle /\ HookInit /\ num_attempts = DefaultAttempts /\ RetryIdle
    /\ AskIdle /\ FetchIdle

SpecRecall == InitRecall /\ [][RecallNext]_vars

\* The paginated fetch.  The loop is a straight run of synchronous code, so a
\* turn that can be taken is taken.
InitFetch ==
    /\ FetchInit /\ HookInit /\ num_attempts = DefaultAttempts /\ RetryIdle
    /\ AskIdle /\ RecallIdle

SpecFetch ==
    InitFetch /\ [][FetchNext]_vars /\ WF_vars(fetch_page) /\ WF_vars(fetch_returns)

----------------------------------------------------------------------------
(* Properties of the webhook server (Spec)                                 *)

Suspended == BagToSet(inflight)

\* C1: a POST /recall/webhook request whose signature does not verify is
\* answered 400, and the recording-started flow is never started for it: it
\* returns at once without a flow and without a cache write, and no handler
\* suspended inside process_recording_started carries an unverified message.
C1_BadSignatureRejected ==
    /\ (last.endpoint = "webhook" /\ ~last.req.sig) =>
           /\ last.status = 400
           /\ last.flow = "none"
           /\ last.cached = None
    /\ \A t \in Suspended : t.pc = "summarizing" => t.msg.sig

\* A recording-started event with a bad signature has been answered.
C1_Witness ==
    /\ last.endpoint = "webhook"
    /\ ~last.req.sig
    /\ last.req.event = IN_CALL_RECORDING
    /\ last.status = 400

\* C2: process_agent_request is started at most once per transcript id, also
\* when deliveries overlap; an id that has triggered the flow is marked, and a
\* later request carrying it is answered 204 without starting the flow.
C2_AgentFlowOncePerTranscript ==
    /\ \A t \in TranscriptIds :
          /\ agent_starts[t] <= 1
          /\ agent_starts[t] = 1 => t \in processed_transcripts
    /\ (last.endpoint = "transcript" /\ last.seen) =>
           /\ last.status = 204
           /\ last.flow = "none"

\* A repeat delivery that would trigger the flow, answered while another
\* delivery is still in flight.
C2_Witness ==
    /\ last.endpoint = "transcript"
    /\ last.seen
    /\ HasTriggerPhrase(last.req.words)
    /\ ~Falsy(last.req.bot)
    /\ agent_starts[last.req.tid] = 1
    /\ BagIn(AtBody("transcript"), inflight)

\* C9 as stated: a verified message whose event type is not recognized starts
\* no flow and is answered 204.
C9_UnknownEventAnswered204 ==
    (last.endpoint = "webhook" /\ last.req.sig /\ ~is_valid_event(last.req.event)) =>
        /\ last.status = 204
        /\ last.flow = "none"

\* C9, amended: a verified message whose event type is not recognized starts
\* no flow and is answered 400.
C9_UnknownEventRejected ==
    /\ (last.endpoint = "webhook" /\ last.req.sig /\ ~is_valid_event(last.req.event)) =>
           /\ last.status = 400
           /\ last.flow = "none"
           /\ last.cached = None
    /\ \A t \in Suspended : t.pc = "summarizing" => is_valid_event(t.msg.event)

\* A verified message of a type outside the enum has been answered.
C9_Witness ==
    /\ last.endpoint = "webhook"
    /\ last.req.sig
    /\ last.req.event = "bot.unknown"
    /\ last.status = 400

\* The body lacks what the handler needs: it is not JSON, or the transcript
\* id or the bot id is missing.
Malformed(body) ==
    \/ body.kind = "notjson"
    \/ body.kind = "json" /\ (Falsy(body.tid) \/ Falsy(body.bot))

\* C10: the transcript endpoint answers 204, except 400 for a malformed
\* payload and 500 for an unhandled error.  400 is given exactly to a body that
\* is not JSON, that lacks the transcript id, or that lacks the bot id under
\* an id not processed before; a request that does not trigger the flow, a
\* repeated id and a triggered flow whose delivery fails are answered 204.
C10_TranscriptStatus ==
    last.endpoint = "transcript" =>
        LET body == last.req
        IN  /\ last.status \in {204, 400, 500}
            /\ last.status = 500 <=> body.kind = "badshape"
            /\ last.status = 400 => Malformed(body)
            /\ last.status = 400 <=>
                   \/ body.kind = "notjson"
                   \/ body.kind = "json" /\ Falsy(body.tid)
                   \/ body.kind = "json" /\ ~last.seen /\ Falsy(body.bot)
            /\ (body.kind = "json" /\ ~Malformed(body) /\ last.flow = "none") =>
                   last.status = 204
            /\ last.seen => last.status = 204
            /\ last.flow = "agent" => last.status = 204

\* The flow was triggered, the audio was posted and the platform refused it.
C10_Witness ==
    /\ last.endpoint = "transcript"
    /\ last.flow = "agent"
    /\ last.posted \in Audio
    /\ last.send = "http_error"
    /\ last.status = 204

----------------------------------------------------------------------------
(* Properties of the retry wrapper (SpecRetry)                             *)

Raised(k) == attempts[k].kind = "raise"

\* C3: one call of the wrapper invokes the wrapped function at most
\* num_attempts times; it stops at the first attempt that returns and returns
\* that value; when all num_attempts attempts raise, it raises the exception
\* of the last attempt itself.
C3_RetryAtMostNumAttempts ==
    /\ Len(attempts) <= num_attempts
    /\ \A k \in 1 .. Len(attempts) - 1 : Raised(k)
    /\ retry_pc = "calling" => Len(attempts) < num_attempts
    /\ retry_pc = "returned" =>
           /\ ~Raised(Len(attempts))
           /\ retry_result = attempts[Len(attempts)]
    /\ retry_pc = "raised" =>
           /\ Raised(Len(attempts))
           /\ retry_result = attempts[Len(attempts)]
    /\ (retry_pc = "raised" /\ retry_result.value \in LLMErrors) =>
           Len(attempts) = num_attempts

\* The default three attempts all raised, the last one another exception
\* than the first.
C3_Witness ==
    /\ retry_pc = "raised"
    /\ num_attempts = DefaultAttempts
    /\ Len(attempts) = DefaultAttempts
    /\ attempts[1].value # attempts[DefaultAttempts].value
    /\ retry_result = attempts[DefaultAttempts]

----------------------------------------------------------------------------
(* Properties of ask and summarize_dashboard (SpecAsk)                     *)

Selected == q_pc # "idle"

\* C4: a candidate whose name and description are both empty is not among the
\* options sent to the LLM and is not returned by the selection.
C4_EmptyCandidateNeverSelectable ==
    Selected =>
        /\ \A k \in DOMAIN q_options :
              ~EmptyCandidate(q_candidates[q_options[k].id + 1])
        /\ q_selected.kind = "item" => ~EmptyCandidate(q_selected.item)

\* C5: on final_answer -1 both selections return None without raising, and
\* ask / summarize_dashboard return the fixed message with embed_url None,
\* with no summary call, no combining call and no embed-URL lookup.
C5_MinusOneIsNoMatch ==
    (q_pc = "done" /\ q_answer.kind = "json" /\ q_answer.final_answer = -1) =>
        /\ q_selected = NoMatch
        /\ q_outcome =
               QueryResult(NotFound(IF q_op = "ask" THEN "metric" ELSE "dashboard"),
                           None)
        /\ llm_calls = NoCalls

\* -1 was reported for a list of two candidates.
C5_Witness ==
    /\ q_pc = "done"
    /\ q_answer.kind = "json"
    /\ q_answer.final_answer = -1
    /\ Len(q_candidates) = 2
    /\ q_outcome.kind = "result"

\* C6: on an empty candidate list the selection returns None whatever the
\* LLM's response reports: it neither raises nor returns a candidate.
C6_EmptyListIsNoMatch ==
    (Selected /\ q_candidates = <<>> /\ q_answer.kind = "json") =>
        q_selected = NoMatch

\* C7: summarizing a dashboard without insights returns the fixed
\* "no insights" text for that dashboard, with no per-insight summary call and
\* no combining call.
C7_NoInsightsNoCalls ==
    (q_op = "summarize_dashboard" /\ q_pc = "done"
        /\ q_selected.kind = "item" /\ q_insights = <<>>) =>
        /\ q_outcome.kind = "result"
        /\ q_outcome.summary = NoInsights(q_selected.item)
        /\ llm_calls.summary = <<>>
        /\ llm_calls.combine = <<>>

\* A dashboard was selected from a list that holds insights of other
\* dashboards only.
C7_Witness ==
    /\ q_op = "summarize_dashboard"
    /\ q_pc = "done"
    /\ q_selected.kind = "item"
    /\ q_insights = <<>>
    /\ q_outcome.kind = "result"
    /\ q_outcome.summary.kind = "no_insights"

\* The summary the call for the i-th insight returned.
SummaryReturnedFor(i) ==
    (CHOOSE c \in {q_completion[k] : k \in DOMAIN q_completion} : c[1] = i)[2]

SummarizedDashboard ==
    /\ q_op = "summarize_dashboard"
    /\ q_pc = "done"
    /\ q_outcome.kind = "result"
    /\ Len(q_insights) >= 1

OneCallPerInsight ==
    llm_calls.summary = [i \in 1 .. Len(q_insights) |-> q_insights[i].id]

\* The template filled with the returned summaries in the order of the input list.
Concatenation ==
    [kind |-> "template",
     dashboard |-> <<q_selected.item.name,
                     IF Falsy(q_selected.item.description) THEN ""
                     ELSE q_selected.item.description>>,
     lines |-> [i \in 1 .. Len(q_insights) |->
                   <<i, q_insights[i].name, q_insights[i].description,
                     SummaryReturnedFor(i)>>]]

\* C8 as stated: N >= 1 insights give N summary calls, one per insight, and
\* the final text is the concatenation of the N summaries in input order.
C8_FinalTextIsConcatenation ==
    SummarizedDashboard =>
        /\ OneCallPerInsight
        /\ q_outcome.summary = Concatenation

\* C8, amended: N >= 1 insights give N summary calls, one per insight, then
\* one combining call whose prompt is the concatenation of the N summaries in
\* input order, whatever order the calls completed in; the final text is the
\* answer of the combining call.
C8_CombinedInInputOrder ==
    SummarizedDashboard =>
        /\ OneCallPerInsight
        /\ llm_calls.combine = <<Concatenation>>
        /\ q_outcome.summary \in CombineAnswers(Concatenation)

\* Two insights whose calls completed in reverse order with different
\* summaries, and a final text that is the LLM's own.
C8_Witness ==
    /\ SummarizedDashboard
    /\ Len(q_insights) = 2
    /\ q_completion[1][1] = 2
    /\ q_completion[1][2] # q_completion[2][2]
    /\ q_outcome.summary.kind = "llm"

\* C11: when ask or summarize_dashboard returns a result, the HTTP handler
\* answers status "success" with `response` equal to the result's summary
\* text and `embed_url` equal to the result's embed URL (null when it has
\* none).
C11_ResponseCarriesSummaryAndEmbedUrl ==
    (http_response.status_code = 200 /\ q_outcome.kind = "result") =>
        http_response.body = [status |-> "success",
                              response |-> q_outcome.summary,
                              embed_url |-> q_outcome.embed_url]

\* A transcript request whose agent flow read a truthy cached payload and
\* posted it to the bot platform.
AgentPosted ==
    /\ last.endpoint = "transcript"
    /\ last.flow = "agent"
    /\ last.posted # None

\* C12 as stated: once process_agent_request has read a bot's cached payload
\* and attempted to deliver it, the entry is no longer in audio_cache.
C12_EntryRemovedAfterAttempt ==
    AgentPosted => last.req.bot \notin DOMAIN audio_cache

\* C12, amended: an entry is removed exactly by a delivery the bot platform
\* accepted.  A bot id is a key of audio_cache exactly while its entry has been
\* written and not yet delivered successfully; after a failed attempt the
\* payload that was posted is still cached.
C12_EntryRemovedOnDelivery ==
    /\ \A b \in BotIds :
          b \in DOMAIN audio_cache <=> cache_history[b] = "cached"
    /\ (AgentPosted /\ last.send = "ok") =>
           last.req.bot \notin DOMAIN audio_cache
    /\ (AgentPosted /\ last.send # "ok") =>
           /\ last.req.bot \in DOMAIN audio_cache
           /\ audio_cache[last.req.bot] = last.posted

\* A delivery was accepted and removed the entry of one bot while the entry
\* of the other bot, never consumed, is still cached.
C12_Witness ==
    /\ AgentPosted
    /\ last.send = "ok"
    /\ cache_history[last.req.bot] \in {"removed", "removed_overlapped"}
    /\ \E b \in DOMAIN audio_cache : b # last.req.bot

\* C13: when the selection call or the summarization call of a request
\* raises and the failure reaches the caller, the call that raised has been
\* made DefaultAttempts times.
C13_FailedLLMCallRetried ==
    (q_pc = "done" /\ q_outcome = LLMError) =>
        /\ q_answer.kind = "error" => select_calls = DefaultAttempts
        /\ (q_op = "ask" /\ q_selected.kind = "item") =>
               llm_calls.summary =
                   [k \in 1 .. DefaultAttempts |-> q_selected.item.id]

\* C14: a call to the bot platform returns, never raises, after a single
\* POST; it returns True exactly when the platform answered with a 2xx status,
\* and False for any other response and for a transport failure.
C14_TrueExactlyOn2xx ==
    recall_pc = "returned" =>
        /\ recall_result.kind = "return"
        /\ recall_posts = 1
        /\ recall_result.value <=>
               /\ recall_answer.kind = "response"
               /\ recall_answer.status_code \in 200 .. 299

\* The pages the cursors lead through from `page`, at most `fuel` of them.
RECURSIVE ChainFrom(_, _)
ChainFrom(page, fuel) ==
    IF page = NoNext \/ fuel = 0 THEN <<>>
    ELSE <<page>> \o ChainFrom(next_of[page], fuel - 1)

\* The chain of cursors from base_url ends: no page leads back to a page
\* already visited.
FiniteChain ==
    LET chain == ChainFrom(1, MaxPages)
    IN  next_of[chain[Len(chain)]] = NoNext

\* The records of a list of pages, concatenated in the order of the list.
RECURSIVE RecordsOf(_)
RecordsOf(pages) ==
    IF pages = <<>> THEN <<>>
    ELSE PageRecords(Head(pages)) \o RecordsOf(Tail(pages))

\* C15: when the chain of next cursors is finite, the fetch requests the
\* pages of the chain in order, each once, collects their records in page
\* order, and terminates once a page has no next cursor, returning the
\* records of all the pages of the chain.
C15_FetchFollowsChain ==
    /\ [](FiniteChain =>
            LET chain == ChainFrom(1, MaxPages)
            IN  /\ Len(requested) <= Len(chain)
                /\ requested = SubSeq(chain, 1, Len(requested))
                /\ all_results = RecordsOf(requested)
                /\ fetch_pc = "done" =>
                       /\ requested = chain
                       /\ all_results = RecordsOf(chain))
    /\ (FiniteChain ~> fetch_pc = "done")

\* A chain of three pages, one of them empty, has been fetched to its end.
C15_Witness ==
    /\ FiniteChain
    /\ fetch_pc = "done"
    /\ Len(requested) = 3
    /\ Len(all_results) = 3

\* C16: in ask, when the LLM's answer is the index i of a candidate of the
\* fetched insight list, that candidate is selected, the only summary call
\* made is the one for it, no combining call is made, and a summary that is
\* returned is the result of that call.
C16_OneSummaryForSelectedInsight ==
    (q_op = "ask" /\ q_pc = "done" /\ q_answer.kind = "json"
        /\ 0 <= q_answer.final_answer
        /\ q_answer.final_answer < Len(q_candidates)) =>
        LET insight == q_candidates[q_answer.final_answer + 1]
        IN  /\ q_selected = Item(insight)
            /\ llm_calls.summary = <<insight.id>>
            /\ llm_calls.combine = <<>>
            /\ Len(q_completion) = 1
            /\ q_outcome.kind \in {"result", "raise"}
            /\ q_outcome.kind = "result" =>
                   /\ q_outcome.summary.kind = "llm"
                   /\ q_outcome.summary = q_completion[1][2]
            /\ q_outcome.kind = "raise" => q_completion[1][2] = q_outcome

\* Insights DAU and WAU with index 0 selected: the answer is the DAU summary.
C16_Witness ==
    /\ q_op = "ask"
    /\ q_pc = "done"
    /\ Len(q_candidates) = 2
    /\ q_candidates[1].name = "DAU"
    /\ q_candidates[2].name = "WAU"
    /\ q_answer.kind = "json"
    /\ q_answer.final_answer = 0
    /\ llm_calls.summary = <<q_candidates[1].id>>
    /\ q_outcome.kind = "result"
    /\ http_response.status_code = 200

\* An agent flow that was in flight, its body unread, while another agent
\* flow for the same bot id delivered the bot's cached payload and removed
\* the entry, and that has now run.
ReadAfterRemoval ==
    /\ last.endpoint = "transcript"
    /\ last.flow = "agent"
    /\ last.raced

\* C17: two overlapping flows for one bot id interfere through audio_cache:
\* the flow that runs second reads an entry the first has already removed.
\* Whenever that happens it finds nothing and posts nothing, so the payload
\* the first flow delivered is not delivered again, and it is answered 204.
C17_ReadAfterRemovalFindsNothing ==
    ReadAfterRemoval =>
        /\ last.posted = None
        /\ last.status = 204
        /\ last.req.bot \notin DOMAIN audio_cache
        /\ cache_history[last.req.bot] = "removed"

\* The interleaving is reachable: the second of two overlapping agent flows
\* for one bot id has read the entry the first one removed.
C17_Witness ==
    /\ ReadAfterRemoval
    /\ last.posted = None
    /\ last.req.bot \notin DOMAIN audio_cache
    /\ processed_transcripts = TranscriptIds

\* One of the gathered per-insight summary calls has failed.
SummaryCallFailed ==
    /\ q_op = "summarize_dashboard"
    /\ \E k \in DOMAIN q_completion : q_completion[k][2].kind = "raise"

\* C18: when one of the N gathered summary calls fails, summarize_dashboard
\* fails with that call's error: it returns no summary, the combining call is
\* never made, and neither is the embed lookup.
C18_OneFailureFailsTheSummary ==
    SummaryCallFailed =>
        /\ q_pc = "done"
        /\ q_outcome = q_completion[Len(q_completion)][2]
        /\ q_outcome.kind = "raise"
        /\ llm_calls.combine = <<>>
        /\ llm_calls.embed = 0
        /\ http_response.status_code \in {NoResponse.status_code, 500}

\* Of two gathered calls the first returned a summary and the second failed.
C18_Witness ==
    /\ SummaryCallFailed
    /\ Len(q_insights) = 2
    /\ Len(q_completion) = 2
    /\ q_completion[1][2].kind = "llm"
    /\ q_completion[2][2].kind = "raise"
    /\ q_outcome.kind = "raise"
    /\ http_response.status_code = 500

\* C19: an integer final answer that is not the id of an option sent to the
\* LLM (below -1, at or beyond the number of candidates, or the index of an
\* excluded candidate) makes the selection return None: it neither raises
\* nor returns a candidate.
C19_UnofferedAnswerIsNoMatch ==
    (Selected /\ q_answer.kind = "json"
        /\ \A k \in DOMAIN q_options : q_options[k].id # q_answer.final_answer) =>
        q_selected = NoMatch

\* C20: for a correctly signed webhook request with a recognized event type,
\* process_recording_started is started exactly when the event type is
\* bot.in_call_recording, and the answer is 204 whether no flow was started,
\* the flow cached a payload, or the flow failed.
C20_FlowStartedOnlyByRecordingStarted ==
    /\ \A t \in Suspended :
          t.pc = "summarizing" =>
              t.msg.sig /\ t.msg.event = IN_CALL_RECORDING
    /\ (last.endpoint = "webhook" /\ last.req.sig
            /\ is_valid_event(last.req.event)) =>
           /\ last.flow = "recording" <=> last.req.event = IN_CALL_RECORDING
           /\ last.flow \in {"recording", "none"}
           /\ last.status = 204
    /\ (last.endpoint = "webhook" /\ last.flow = "recording") =>
           last.req.sig /\ last.req.event = IN_CALL_RECORDING

\* A recording-started flow has failed (nothing was cached) and its request
\* was answered 204, while another started flow is still suspended.
C20_Witness ==
    /\ last.endpoint = "webhook"
    /\ last.req.sig
    /\ last.req.event = IN_CALL_RECORDING
    /\ last.flow = "recording"
    /\ last.cached = None
    /\ last.status = 204
    /\ \E t \in Suspended : t.pc = "summarizing"

\* A recording-started flow has run to its return.
RecordingFlowReturned ==
    /\ last.endpoint = "webhook"
    /\ last.flow = "recording"

\* C21: the recording-started flow calls summarize_dashboard, then
\* send_screenshare_to_recall, then text_to_speech_base64, each only after the
\* one before it succeeded, and writes audio_cache[bot_id] only after all
\* three succeeded.  When a call fails the flow makes no later call, returns
\* None without raising (the request is answered 204) and leaves audio_cache
\* as it was.
C21_CacheWrittenOnlyAfterAllSteps ==
    RecordingFlowReturned =>
        LET n == Len(last.steps)
            bot_id == last.req.bot
        IN  /\ n \in 1 .. Len(RecordingSteps)
            /\ \A k \in 1 .. n - 1 : last.steps[k] = "ok"
            /\ n < Len(RecordingSteps) => last.steps[n] # "ok"
            /\ last.status = 204
            /\ IF \A k \in 1 .. n : last.steps[k] = "ok"
               THEN /\ last.cached # None
                    /\ last.returned = last.cached
                    /\ bot_id \in DOMAIN audio_cache
                    /\ audio_cache[bot_id] = last.cached
                    /\ \A b \in DOMAIN audio_cache \ {bot_id} :
                          b \in DOMAIN last.prior /\ audio_cache[b] = last.prior[b]
               ELSE /\ last.cached = None
                    /\ last.returned = None
                    /\ audio_cache = last.prior

\* Text to speech raised after the screenshare had started: nothing was
\* written, and the payload an earlier flow cached for the bot is still there.
C21_Witness ==
    /\ RecordingFlowReturned
    /\ last.steps = <<"ok", "ok", "raise">>
    /\ last.returned = None
    /\ last.req.bot \in DOMAIN audio_cache
    /\ audio_cache = last.prior

\* C22: processed_transcripts is exactly the set of transcript ids the agent
\* flow has been started for, and the flow is started at most once per id.
\* A request that starts the flow is a first delivery with a bot id and the
\* trigger phrase, and its id is marked whatever the delivery came to; a
\* request that starts no flow (no phrase, a repeat, or answered 400 or 500)
\* leaves the set as it was.
C22_ProcessedAreTheStartedIds ==
    /\ processed_transcripts = {t \in TranscriptIds : agent_starts[t] >= 1}
    /\ \A t \in TranscriptIds : agent_starts[t] <= 1
    /\ last.endpoint = "transcript" =>
           /\ last.flow = "agent" =>
                  /\ ~last.seen
                  /\ ~Falsy(last.req.bot)
                  /\ HasTriggerPhrase(last.req.words)
                  /\ last.status = 204
                  /\ last.req.tid \in processed_transcripts
           /\ last.flow = "none" =>
                  (last.req.tid \in processed_transcripts <=> last.seen)
           /\ last.status # 204 => last.flow = "none"
           /\ (~Falsy(last.req.bot) /\ ~Falsy(last.req.tid)
                  /\ HasTriggerPhrase(last.req.words)) =>
                  last.req.tid \in processed_transcripts

\* A repeat of a transcript id whose delivery had found no audio or failed is
\* declined although a payload is now cached for its bot.
C22_Witness ==
    /\ last.endpoint = "transcript"
    /\ last.seen
    /\ last.flow = "none"
    /\ HasTriggerPhrase(last.req.words)
    /\ ~Falsy(last.req.bot)
    /\ last.req.bot \in DOMAIN audio_cache
    /\ ~Falsy(audio_cache[last.req.bot])
    /\ cache_history = [b \in BotIds |->
                           IF b = last.req.bot THEN "cached" ELSE "none"]

====
